---- MODULE Spec2Model ----
(***************************************************************************)
(* Model of interppotential_calc_potential.c: the two entry points         *)
(* calc_potential (grid mode) and eval_potential (paired mode), stepped    *)
(* statement by statement, called in sequence by one caller.  Entry        *)
(* indices, coordinate indices and output indices are 0-based as in the    *)
(* C code.  Doubles are abstracted to integers.                            *)
(***************************************************************************)
EXTENDS Integers, Sequences, FiniteSets, TLC

\* ---------------------------------------------------------------- bounds
MaxNR == 2
MaxNZ == 3
MaxPot == 2
MaxLive == 1

\* ------------------------------------------------------------ input sets
\* type codes: 0 = analytic component (no auxiliary structure), 1 =
\* interpolation-backed component (owns a table and an accelerator),
\* -1 = a code no constructor recognises
KnownTypes == {0, 1}
TypeCodes == KnownTypes \cup {-1}
\* first element of a coordinate array; arrays are unit-step grids, the
\* radial ones may start below zero, the vertical ones lie apart from them
RStarts == {-1, 1}
ZStarts == {5}
\* values of the one parameter (an amplitude) each component takes from pot_args
Amps == {1, 2}
\* what a status cell the caller did not initialise may hold
ErrVals == {0, 1}
\* what a run of heap memory nobody initialised may read as
JunkVals == {0, 7}

Grid(S, n) == { [i \in 0..(n - 1) |-> s + i] : s \in S }

VARIABLES
  pc,         \* position of the caller / the running entry point
  mode,       \* "calc" or "eval": which entry point is running
  nR, R, nz, z, npot, pot_type, pot_args,      \* the arguments
  out, err,   \* caller's output buffer and status cell
  ii, jj,     \* loop counters
  row, rowState,               \* scratch row and its heap state
  actionAngleArgs, listState,  \* entry list and its heap state
  junk,       \* content of the uninitialised heap memory of this call
  liveI2d, liveAcc,            \* live tables / accelerators on the heap
  baseI2d, baseAcc,            \* the same counts when the call started
  relI2d, relAcc,              \* per entry: how often its table / accelerator was released
  tdReads,    \* entry indices whose i2d / acc field the teardown read
  wlog,       \* indices of out written by this call, in order
  filled,     \* scratch cells written since the last row copy
  copyLog,    \* one record per row copy
  rowAllocs, rowFrees, listAllocs, listFrees,  \* per call alloc/free counts
  memo        \* at most one remembered earlier call (inputs and results)

args == <<nR, R, nz, z, npot, pot_type, pot_args>>
loopv == <<ii, jj>>
rowv == <<row, rowState, rowAllocs, rowFrees>>
listv == <<actionAngleArgs, listState, listAllocs, listFrees>>
heapv == <<liveI2d, liveAcc, baseI2d, baseAcc, relI2d, relAcc>>
ghostv == <<tdReads, wlog, filled, copyLog>>
vars == <<pc, mode, args, out, err, loopv, rowv, listv, junk, heapv, ghostv, memo>>

Empty == [k \in {} |-> 0]

\* ------------------------------------------------- external collaborators
\* an entry slot of freshly malloc'ed memory: nothing constructed in it
Unconstructed == [init |-> FALSE, type |-> 0, amp |-> 0, i2d |-> FALSE, acc |-> FALSE]

\* per-type constructor: type 1 allocates a table and an accelerator
Construct(t, a) == [init |-> TRUE, type |-> t, amp |-> a, i2d |-> (t = 1), acc |-> (t = 1)]

\* index of the first unrecognised type code, n if there is none
FirstBad(n, pt) ==
  IF \E k \in 0..(n - 1) : pt[k] \notin KnownTypes
  THEN CHOOSE k \in 0..(n - 1) :
         /\ pt[k] \notin KnownTypes
         /\ \A l \in 0..(k - 1) : pt[l] \in KnownTypes
  ELSE n

\* the parser fills entries in order and stops at the first unsupported type;
\* entries before it stay constructed, the rest of the block stays as malloc left it
parse_actionAngleArgs(n, pt, pa) ==
  [k \in 0..(n - 1) |-> IF k < FirstBad(n, pt) THEN Construct(pt[k], pa[k]) ELSE Unconstructed]

UnsupportedPotentialType(n, pt) == FirstBad(n, pt) < n

\* per-type evaluation: type 1 requires a non-negative radius
EvaluationDomainError(e, r) == e.init /\ e.type = 1 /\ r < 0

potentialEval(e, r, zz, jk) ==
  IF ~e.init THEN jk
  ELSE IF e.type = 0 THEN e.amp * (r + 10 * zz)
  ELSE IF r < 0 THEN 0
  ELSE e.amp * (100 + 2 * r + 10 * zz)

RECURSIVE SumEntries(_, _, _, _, _)
SumEntries(k, r, zz, pa, jk) ==
  IF k = 0 THEN 0
  ELSE SumEntries(k - 1, r, zz, pa, jk) + potentialEval(pa[k - 1], r, zz, jk)

\* Composite Evaluator: the sum of every entry's contribution at (r, zz)
evaluatePotentials(r, zz, n, pa, jk) == SumEntries(n, r, zz, pa, jk)

\* indices of y that put_row(y, rw, line, nx) writes, in order
PutRowIdx(rw, nx) == [k \in 1..nx |-> rw * nx + (k - 1)]

put_row(y, rw, line, nx) ==
  [idx \in DOMAIN y |->
     IF idx >= rw * nx /\ idx < rw * nx + nx THEN line[idx - rw * nx] ELSE y[idx]]

\* *(y+idx)= v into a buffer of fixed size
Store(y, idx, v) == [k \in DOMAIN y |-> IF k = idx THEN v ELSE y[k]]

NumI2d(pa, n) == Cardinality({k \in 0..(n - 1) : pa[k].init /\ pa[k].i2d})
NumAcc(pa, n) == Cardinality({k \in 0..(n - 1) : pa[k].init /\ pa[k].acc})

\* ------------------------------------------------------------------ Init
Idle ==
  /\ pc = "idle"
  /\ mode = "calc"
  /\ nR = 0 /\ R = Empty /\ nz = 0 /\ z = Empty
  /\ npot = 0 /\ pot_type = Empty /\ pot_args = Empty
  /\ out = Empty /\ err = 0
  /\ ii = 0 /\ jj = 0
  /\ row = Empty /\ rowState = "none"
  /\ actionAngleArgs = Empty /\ listState = "none"
  /\ junk = 0
  /\ relI2d = Empty /\ relAcc = Empty
  /\ tdReads = {}
  /\ wlog = <<>> /\ filled = {} /\ copyLog = <<>>
  /\ rowAllocs = 0 /\ rowFrees = 0 /\ listAllocs = 0 /\ listFrees = 0

Init ==
  /\ Idle
  /\ liveI2d = 0 /\ liveAcc = 0 /\ baseI2d = 0 /\ baseAcc = 0
  /\ memo = {}

\* ----------------------------------------------------------- entry points
\* the caller is between calls; it stops calling once MaxLive structures leaked
CanCall == pc = "idle" /\ liveI2d < MaxLive /\ liveAcc < MaxLive

\* what both entry points do on entry: bind the arguments, malloc the entry list
Enter(m, n1, r, n2, zz, np, pt, pa, e0, jk, size) ==
  /\ mode' = m
  /\ nR' = n1 /\ R' = r /\ nz' = n2 /\ z' = zz
  /\ npot' = np /\ pot_type' = pt /\ pot_args' = pa
  /\ out' = [k \in 0..(size - 1) |-> jk]
  /\ err' = e0
  /\ junk' = jk
  /\ ii' = 0 /\ jj' = 0
  /\ actionAngleArgs' = [k \in 0..(np - 1) |-> Unconstructed]
  /\ listState' = "live" /\ listAllocs' = 1 /\ listFrees' = 0
  /\ baseI2d' = liveI2d /\ baseAcc' = liveAcc
  /\ relI2d' = [k \in 0..(np - 1) |-> 0] /\ relAcc' = [k \in 0..(np - 1) |-> 0]
  /\ tdReads' = {}
  /\ wlog' = <<>> /\ filled' = {} /\ copyLog' = <<>>
  /\ pc' = "parse"
  /\ UNCHANGED <<liveI2d, liveAcc, memo>>

\* the caller may repeat a remembered call, or probe one cell of it
Comparable(m, n1, r, n2, zz, np, pt, pa) ==
  \A c \in memo :
    /\ c.npot = np /\ c.pot_type = pt /\ c.pot_args = pa
    /\ \/ c.mode = m /\ c.nR = n1 /\ c.R = r /\ c.nz = n2 /\ c.z = zz
       \/ /\ c.mode = "eval" /\ c.nR = 1 /\ m = "calc"
          /\ \E i \in 0..(n1 - 1), j \in 0..(n2 - 1) : r[i] = c.R[0] /\ zz[j] = c.z[0]

calc_potential ==
  /\ CanCall
  /\ \E n1 \in 0..MaxNR, n2 \in 0..MaxNZ, np \in 0..MaxPot :
    \E r \in Grid(RStarts, n1), zz \in Grid(ZStarts, n2), pt \in [0..(np - 1) -> TypeCodes],
       pa \in [0..(np - 1) -> Amps], e0 \in ErrVals, jk \in JunkVals :
      /\ Comparable("calc", n1, r, n2, zz, np, pt, pa)
      /\ Enter("calc", n1, r, n2, zz, np, pt, pa, e0, jk, n1 * n2)
      /\ row' = [k \in 0..(n2 - 1) |-> jk]
      /\ rowState' = "live" /\ rowAllocs' = 1 /\ rowFrees' = 0

eval_potential ==
  /\ CanCall
  /\ \E n1 \in 0..MaxNR, np \in 0..MaxPot :
    \E r \in Grid(RStarts, n1), zz \in Grid(ZStarts, n1), pt \in [0..(np - 1) -> TypeCodes],
       pa \in [0..(np - 1) -> Amps], e0 \in ErrVals, jk \in JunkVals :
      /\ Comparable("eval", n1, r, n1, zz, np, pt, pa)
      /\ Enter("eval", n1, r, n1, zz, np, pt, pa, e0, jk, n1)
      /\ row' = Empty
      /\ rowState' = "none" /\ rowAllocs' = 0 /\ rowFrees' = 0

\* parse_actionAngleArgs(npot,actionAngleArgs,pot_type,pot_args);
Parse ==
  /\ pc = "parse"
  /\ actionAngleArgs' = parse_actionAngleArgs(npot, pot_type, pot_args)
  /\ liveI2d' = liveI2d + NumI2d(actionAngleArgs', npot)
  /\ liveAcc' = liveAcc + NumAcc(actionAngleArgs', npot)
  /\ pc' = "walk"
  /\ UNCHANGED <<mode, args, out, err, loopv, rowv, listState, listAllocs, listFrees,
                 junk, baseI2d, baseAcc, relI2d, relAcc, ghostv, memo>>

\* a point is about to be evaluated
CellPending == pc = "walk" /\ ii < nR /\ (mode = "eval" \/ jj < nz)

\* variant of CalcCell: the radial coordinate is always read at *R, not *(R+ii)
CalcCellFirstR ==
  /\ CellPending /\ mode = "calc"
  /\ row' = Store(row, jj, evaluatePotentials(R[0], z[jj], npot, actionAngleArgs, junk))
  /\ filled' = filled \cup {jj}
  /\ jj' = jj + 1
  /\ UNCHANGED <<pc, mode, args, out, err, ii, rowState, rowAllocs, rowFrees, listv,
                 junk, heapv, tdReads, wlog, copyLog, memo>>

\* *(row+jj)= evaluatePotentials(*(R+ii),*(z+jj),npot,actionAngleArgs);
CalcCell ==
  /\ CellPending /\ mode = "calc"
  /\ row' = Store(row, jj, evaluatePotentials(R[ii], z[jj], npot, actionAngleArgs, junk))
  /\ filled' = filled \cup {jj}
  /\ jj' = jj + 1
  /\ UNCHANGED <<pc, mode, args, out, err, ii, rowState, rowAllocs, rowFrees, listv,
                 junk, heapv, tdReads, wlog, copyLog, memo>>

\* variant of CalcPutRow: put_row sits inside the inner loop, copying after every cell
CalcPutRowEarly ==
  /\ pc = "walk" /\ mode = "calc" /\ ii < nR /\ (jj >= nz \/ jj >= 1)
  /\ out' = put_row(out, ii, row, nz)
  /\ wlog' = wlog \o PutRowIdx(ii, nz)
  /\ copyLog' = Append(copyLog, [i |-> ii, filled |-> filled])
  /\ filled' = {}
  /\ ii' = ii + 1 /\ jj' = 0
  /\ UNCHANGED <<pc, mode, args, err, rowv, listv, junk, heapv, tdReads, memo>>

\* put_row(out,ii ,row,nz);  and the outer loop's ii++
CalcPutRow ==
  /\ pc = "walk" /\ mode = "calc" /\ ii < nR /\ jj >= nz
  /\ out' = put_row(out, ii, row, nz)
  /\ wlog' = wlog \o PutRowIdx(ii, nz)
  /\ copyLog' = Append(copyLog, [i |-> ii, filled |-> filled])
  /\ filled' = {}
  /\ ii' = ii + 1 /\ jj' = 0
  /\ UNCHANGED <<pc, mode, args, err, rowv, listv, junk, heapv, tdReads, memo>>

\* variant of EvalCell: the vertical coordinate is always read at *z, not *(z+ii)
EvalCellFirstZ ==
  /\ CellPending /\ mode = "eval"
  /\ out' = Store(out, ii, evaluatePotentials(R[ii], z[0], npot, actionAngleArgs, junk))
  /\ wlog' = Append(wlog, ii)
  /\ ii' = ii + 1
  /\ UNCHANGED <<pc, mode, args, err, jj, rowv, listv, junk, heapv, tdReads,
                 filled, copyLog, memo>>

\* variant of EvalCell: the result is stored one cell too far, at *(out+ii+1)
EvalCellOffByOne ==
  /\ CellPending /\ mode = "eval"
  /\ out' = Store(out, ii + 1, evaluatePotentials(R[ii], z[ii], npot, actionAngleArgs, junk))
  /\ wlog' = Append(wlog, ii + 1)
  /\ ii' = ii + 1
  /\ UNCHANGED <<pc, mode, args, err, jj, rowv, listv, junk, heapv, tdReads,
                 filled, copyLog, memo>>

\* *(out+ii)= evaluatePotentials(*(R+ii),*(z+ii),npot,actionAngleArgs);
EvalCell ==
  /\ CellPending /\ mode = "eval"
  /\ out' = Store(out, ii, evaluatePotentials(R[ii], z[ii], npot, actionAngleArgs, junk))
  /\ wlog' = Append(wlog, ii)
  /\ ii' = ii + 1
  /\ UNCHANGED <<pc, mode, args, err, jj, rowv, listv, junk, heapv, tdReads,
                 filled, copyLog, memo>>

\* evaluating an entry nothing constructed calls through an uninitialised
\* function pointer: instead of returning a value the process may die
WalkCrash ==
  /\ CellPending
  /\ \E k \in 0..(npot - 1) : ~actionAngleArgs[k].init
  /\ pc' = "crashed"
  /\ UNCHANGED <<mode, args, out, err, loopv, rowv, listv, junk, heapv, ghostv, memo>>

\* the field read of actionAngleArgs->... is a read of constructed memory
Entry0Constructed == npot > 0 /\ actionAngleArgs[0].init

\* if ( actionAngleArgs->i2d ) interp_2d_free(actionAngleArgs->i2d) ;
\* The field is read from entry 0 whatever npot is.  Read from memory nothing
\* constructed, it is NULL (skip), or a stray handle whose release either
\* passes unnoticed or kills the process.
TeardownI2d ==
  /\ pc = "walk" /\ ii >= nR
  /\ tdReads' = tdReads \cup {0}
  /\ IF Entry0Constructed
     THEN /\ IF actionAngleArgs[0].i2d
             THEN /\ liveI2d' = liveI2d - 1
                  /\ relI2d' = [relI2d EXCEPT ![0] = @ + 1]
             ELSE UNCHANGED <<liveI2d, relI2d>>
          /\ pc' = "free_acc"
     ELSE /\ UNCHANGED <<liveI2d, relI2d>>
          /\ pc' \in {"free_acc", "crashed"}
  /\ UNCHANGED <<mode, args, out, err, loopv, rowv, listv, junk, liveAcc, baseI2d, baseAcc,
                 relAcc, wlog, filled, copyLog, memo>>

\* if (actionAngleArgs->acc ) gsl_interp_accel_free (actionAngleArgs->acc);
TeardownAcc ==
  /\ pc = "free_acc"
  /\ tdReads' = tdReads \cup {0}
  /\ IF Entry0Constructed
     THEN /\ IF actionAngleArgs[0].acc
             THEN /\ liveAcc' = liveAcc - 1
                  /\ relAcc' = [relAcc EXCEPT ![0] = @ + 1]
             ELSE UNCHANGED <<liveAcc, relAcc>>
          /\ pc' = "free_list"
     ELSE /\ UNCHANGED <<liveAcc, relAcc>>
          /\ pc' \in {"free_list", "crashed"}
  /\ UNCHANGED <<mode, args, out, err, loopv, rowv, listv, junk, liveI2d, baseI2d, baseAcc,
                 relI2d, wlog, filled, copyLog, memo>>

\* variant of FreeList: the list is released only when every type code was recognised
FreeListOnSuccess ==
  /\ pc = "free_list"
  /\ listState' = IF UnsupportedPotentialType(npot, pot_type) THEN listState ELSE "freed"
  /\ listFrees' = IF UnsupportedPotentialType(npot, pot_type) THEN listFrees ELSE listFrees + 1
  /\ pc' = IF mode = "calc" THEN "free_row" ELSE "done"
  /\ UNCHANGED <<mode, args, out, err, loopv, rowv, actionAngleArgs, listAllocs,
                 junk, heapv, ghostv, memo>>

\* free(actionAngleArgs);
FreeList ==
  /\ pc = "free_list"
  /\ listState' = "freed"
  /\ listFrees' = listFrees + 1
  /\ pc' = IF mode = "calc" THEN "free_row" ELSE "done"
  /\ UNCHANGED <<mode, args, out, err, loopv, rowv, actionAngleArgs, listAllocs,
                 junk, heapv, ghostv, memo>>

\* free(row);
FreeRow ==
  /\ pc = "free_row"
  /\ rowState' = "freed"
  /\ rowFrees' = rowFrees + 1
  /\ pc' = "done"
  /\ UNCHANGED <<mode, args, out, err, loopv, row, rowAllocs, listv,
                 junk, heapv, ghostv, memo>>

\* the caller drops every buffer of the finished call
Drop ==
  /\ pc' = "idle"
  /\ mode' = "calc"
  /\ nR' = 0 /\ R' = Empty /\ nz' = 0 /\ z' = Empty
  /\ npot' = 0 /\ pot_type' = Empty /\ pot_args' = Empty
  /\ out' = Empty /\ err' = 0
  /\ ii' = 0 /\ jj' = 0
  /\ row' = Empty /\ rowState' = "none"
  /\ actionAngleArgs' = Empty /\ listState' = "none"
  /\ junk' = 0
  /\ relI2d' = Empty /\ relAcc' = Empty
  /\ tdReads' = {}
  /\ wlog' = <<>> /\ filled' = {} /\ copyLog' = <<>>
  /\ rowAllocs' = 0 /\ rowFrees' = 0 /\ listAllocs' = 0 /\ listFrees' = 0

\* the closing brace: control is back in the caller, which drops its buffers
Return ==
  /\ pc = "done"
  /\ Drop
  /\ UNCHANGED <<liveI2d, liveAcc, baseI2d, baseAcc, memo>>

\* the caller keeps what this call was given and what it produced
Remember ==
  /\ pc = "done"
  /\ memo = {}
  /\ memo' = {[mode |-> mode, nR |-> nR, R |-> R, nz |-> nz, z |-> z, npot |-> npot,
               pot_type |-> pot_type, pot_args |-> pot_args, out |-> out, err |-> err]}
  /\ Drop
  /\ UNCHANGED <<liveI2d, liveAcc, baseI2d, baseAcc>>

Step ==
  \/ Parse
  \/ CalcCell
  \/ CalcPutRow
  \/ EvalCell
  \/ WalkCrash
  \/ TeardownI2d
  \/ TeardownAcc
  \/ FreeList
  \/ FreeRow

Next ==
  \/ calc_potential
  \/ eval_potential
  \/ Step
  \/ Return

Spec == Init /\ [][Next]_vars

NextMemo ==
  \/ calc_potential
  \/ eval_potential
  \/ Step
  \/ Return
  \/ Remember

SpecMemo == Init /\ [][NextMemo]_vars

\* ------------------------------------------------------------ properties
\* the entry list the parser builds from the arguments of the running call
Entries == parse_actionAngleArgs(npot, pot_type, pot_args)

\* the Composite Evaluator's value at (r, zz) for the running call
Composite(r, zz) == evaluatePotentials(r, zz, npot, Entries, junk)

\* size of the caller's output buffer
OutSize == IF mode = "calc" THEN nR * nz ELSE nR

\* index pairs (into R, into z) of the points the running call evaluates
Points ==
  IF mode = "calc" THEN (0..(nR - 1)) \X (0..(nz - 1))
  ELSE {<<i, i>> : i \in 0..(nR - 1)}

\* the call hit one of the two error kinds
CallFailed ==
  \/ UnsupportedPotentialType(npot, pot_type)
  \/ \E p \in Points, k \in 0..(npot - 1) : EvaluationDomainError(Entries[k], R[p[1]])

SameDescriptors(c) == c.npot = npot /\ c.pot_type = pot_type /\ c.pot_args = pot_args

\* C1: when calc_potential has returned, out[i*nz + j] holds the Composite
\* Evaluator's value at (R[i], z[j]) for every i < nR and j < nz (row-major).
C1_RowMajor ==
  (pc = "done" /\ mode = "calc") =>
    \A i \in 0..(nR - 1), j \in 0..(nz - 1) :
      /\ i * nz + j \in DOMAIN out
      /\ out[i * nz + j] = Composite(R[i], z[j])

C1_Witness ==
  /\ pc = "done" /\ mode = "calc" /\ nR = 2 /\ nz = 3 /\ npot = 2
  /\ ~CallFailed
  /\ Cardinality({out[k] : k \in DOMAIN out}) = 6

\* C2: when eval_potential has returned, out[i] holds the Composite Evaluator's
\* value at (R[i], z[i]) for every i < nR, the same index on both arrays.
C2_Pairwise ==
  (pc = "done" /\ mode = "eval") =>
    \A i \in 0..(nR - 1) : i \in DOMAIN out /\ out[i] = Composite(R[i], z[i])

C2_Witness ==
  /\ pc = "done" /\ mode = "eval" /\ nR = 2 /\ npot = 2
  /\ ~CallFailed
  /\ out[0] # out[1]

\* C3: when either entry point has returned, err is zero if the call succeeded
\* and nonzero if a type code was unrecognised or an evaluation left its domain.
C3_StatusReported ==
  pc = "done" => (err # 0 <=> CallFailed)

\* C4: when a call has returned, every table and accelerator the parser
\* allocated for any entry has been released exactly once, and the live counts
\* are back at their values from before the call.
C4_AuxReleased ==
  pc = "done" =>
    /\ \A k \in 0..(npot - 1) :
         /\ relI2d[k] = (IF Entries[k].init /\ Entries[k].i2d THEN 1 ELSE 0)
         /\ relAcc[k] = (IF Entries[k].init /\ Entries[k].acc THEN 1 ELSE 0)
    /\ liveI2d = baseI2d
    /\ liveAcc = baseAcc

\* C5: for the same descriptors, the value calc_potential stored at
\* out[i*nz + j] equals the value an eval_potential call on the single pair
\* (R[i], z[j]) stored at its out[0].
C5_GridPairedConsistent ==
  (pc = "done" /\ mode = "calc") =>
    \A c \in memo :
      (c.mode = "eval" /\ c.nR = 1 /\ SameDescriptors(c)) =>
        \A i \in 0..(nR - 1), j \in 0..(nz - 1) :
          (R[i] = c.R[0] /\ z[j] = c.z[0]) => out[i * nz + j] = c.out[0]

\* C6: two calls of the same entry point with the same descriptors and the
\* same coordinate arrays end with the same output buffer and the same status.
C6_Idempotent ==
  pc = "done" =>
    \A c \in memo :
      (c.mode = mode /\ SameDescriptors(c) /\ c.nR = nR /\ c.R = R /\ c.nz = nz /\ c.z = z)
        => (out = c.out /\ err = c.err)

\* C7: in every call the entry list is allocated once at the start, stays live
\* through parsing, walking and the reads of the teardown, is released only
\* after the walker has finished, is released exactly once before the call
\* returns on every exit path, and no statement that touches the list follows
\* its release.
C7_ListLifetime ==
  /\ pc # "idle" => listAllocs = 1
  /\ listFrees <= 1
  /\ pc \in {"parse", "walk", "free_acc", "free_list"} => (listState = "live" /\ listFrees = 0)
  /\ pc \in {"free_acc", "free_list", "free_row", "done"} => ii = nR
  /\ listState = "freed" => pc \in {"free_row", "done"}
  /\ pc = "done" => (listState = "freed" /\ listFrees = 1)

C7_Witness ==
  /\ pc = "done" /\ UnsupportedPotentialType(npot, pot_type) /\ npot = 2 /\ nR > 0
  /\ listFrees = 1

\* C8: a call writes only indices of out below nR*nz (grid) or nR (paired),
\* none of them twice, and all of them by the time it returns; out keeps its
\* size, and R, z, pot_type and pot_args keep their contents during the call.
C8_Frame ==
  /\ [](pc # "idle" =>
          /\ DOMAIN out = 0..(OutSize - 1)
          /\ \A k \in 1..Len(wlog) : wlog[k] \in 0..(OutSize - 1)
          /\ \A k, l \in 1..Len(wlog) : wlog[k] = wlog[l] => k = l
          /\ pc = "done" => {wlog[k] : k \in 1..Len(wlog)} = 0..(OutSize - 1))
  /\ [][pc \notin {"idle", "done"} => UNCHANGED <<nR, R, nz, z, npot, pot_type, pot_args>>]_vars

C8_Witness ==
  /\ pc = "done" /\ mode = "calc" /\ nR = 2 /\ nz = 3
  /\ Len(wlog) = 6

\* C9: calc_potential allocates one scratch row of nz cells, every row copy
\* happens with all nz cells written since the previous copy, copy number k
\* is of row k and lands at offset k*nz, and the scratch row is released
\* exactly once by the time the call returns; eval_potential has no scratch row.
C9_Scratch ==
  /\ (mode = "calc" /\ pc # "idle") =>
       /\ rowAllocs = 1 /\ rowFrees <= 1
       /\ DOMAIN row = 0..(nz - 1)
       /\ \A k \in 1..Len(copyLog) :
            /\ copyLog[k].i = k - 1
            /\ copyLog[k].filled = 0..(nz - 1)
            /\ \A m \in 1..nz : wlog[(k - 1) * nz + m] = (k - 1) * nz + (m - 1)
       /\ rowState = "freed" <=> pc = "done"
       /\ pc = "done" => (Len(copyLog) = nR /\ rowFrees = 1)
  /\ mode = "eval" => (rowAllocs = 0 /\ rowState = "none" /\ copyLog = <<>>)

C9_Witness ==
  /\ pc = "done" /\ mode = "calc" /\ nR = 2 /\ nz = 2
  /\ Len(copyLog) = 2 /\ rowFrees = 1

\* C10: the teardown reads the i2d / acc fields only of entries whose index
\* lies in 0..npot-1, also when npot = 0.
C10_TeardownInList ==
  tdReads \subseteq 0..(npot - 1)

====
